---- MODULE Spec2Model ----
(***************************************************************************)
(* MultiWallet: the router in front of the Local, Remote and Ledger        *)
(* wallet backends.  Every router call is a short pipeline of backend      *)
(* calls; one step of the model is one backend call (or the return that    *)
(* follows the last one).                                                  *)
(***************************************************************************)
EXTENDS Naturals, Integers, Sequences, FiniteSets, TLC

\* ---- bounds of the model
NumAddr == 2
NumProcs == 2

Addr == 1..NumAddr
Procs == 1..NumProcs

\* ---- the program's constants
Undef == 0
KTSecp256k1Ledger == "secp256k1-ledger"
KeyTypes == {"bls", "secp256k1", KTSecp256k1Ledger}
Backends == {"Remote", "Ledger", "Local"}
LocalOps == {"WalletChangePasswd", "DeleteKey2", "WalletClearPasswd", "WalletIsLock",
             "WalletLock", "WalletUnlock", "WalletSignMessage2"}

VARIABLES
    present,  \* present[b]: the MultiWallet field of backend b is non-nil
    keys,     \* keys[b]: the addresses backend b owns
    call      \* call[p]: the router call caller p is executing (or has finished)

vars == <<present, keys, call>>

Range(s) == {s[i] : i \in DOMAIN s}

\* ---- values returned to the caller
NoErr == <<>>
BackendError(b, m) == <<"BackendError", b, m>>
KeyNotFound(m) == <<"KeyNotFound", "router", m>>
NoBackendAvailable(m) == <<"NoBackendAvailable", "router", m>>

Ret(kind, err, val) == [kind |-> kind, err |-> err, val |-> val]
NoResult == Ret("none", NoErr, <<>>)

\* One backend call, as the router sees it: backend, method, outcome, value.
Entry(b, m, r, v) == [b |-> b, m |-> m, r |-> r, v |-> v]

NewCall(o, a, kt) ==
    [pc |-> "idle", op |-> o, addr |-> a, ktype |-> kt,
     ws |-> <<>>, w |-> "nil", out |-> <<>>, seen |-> {},
     log |-> <<>>, probed |-> <<>>, passes |-> 0,
     result |-> NoResult, keys0 |-> keys]

\* A caller that has not called the router yet.
NoCall ==
    [pc |-> "idle", op |-> "none", addr |-> Undef, ktype |-> "none",
     ws |-> <<>>, w |-> "nil", out |-> <<>>, seen |-> {},
     log |-> <<>>, probed |-> <<>>, passes |-> 0,
     result |-> NoResult, keys0 |-> [b \in Backends |-> {}]]

Idle(p) == call[p].pc = "idle"

Done(c, res) == [c EXCEPT !.pc = "done", !.result = res]

\* ---- the helpers of the router
nonNil(wallets) ==
    LET isPresent(b) == present[b]
    IN  SelectSeq(wallets, isPresent)

firstNonNil(wallets) ==
    LET hit == {i \in DOMAIN wallets : present[wallets[i]]}
    IN  IF hit = {} THEN "nil"
        ELSE wallets[CHOOSE i \in hit : \A j \in hit : i <= j]

\* The Get() probes firstNonNil makes: up to and including the first present one.
firstNonNilProbes(wallets) ==
    LET hit == {i \in DOMAIN wallets : present[wallets[i]]}
    IN  IF hit = {} THEN wallets
        ELSE SubSeq(wallets, 1, CHOOSE i \in hit : \A j \in hit : i <= j)

\* Entering find: nonNil probes every wallet of the list, the loop starts on ws.
StartFind(c, wallets) ==
    [c EXCEPT !.pc = "find", !.ws = nonNil(wallets), !.w = "nil",
              !.probed = @ \o wallets, !.passes = @ + 1]

\* The wallets each handler hands to find or nonNil, in the order it writes them.
HasOrder_LocalFirst == <<"Local", "Ledger", "Remote">>
HasOrder == <<"Remote", "Ledger", "Local">>
ExportOrder_WithLedger == <<"Remote", "Ledger", "Local">>
ExportOrder == <<"Remote", "Local">>
ListOrder_NoLedger == <<"Remote", "Local">>
ListOrder == <<"Remote", "Ledger", "Local">>

\* ---- the backends, as the router's collaborators
BackendHasKey(b, a) == {"err", IF a \in keys[b] THEN "true" ELSE "false"}

BackendCall(b, a) == IF a \in keys[b] THEN {"ok", "err"} ELSE {"notfound"}

BackendDelete(b, a) == {"ok", "err"}

BackendCreate(b) == {<<"err", Undef>>} \cup {<<"ok", a>> : a \in Addr \ keys[b]}

BackendImport(b, a) == {"ok", "err"}

\* ListAddresses: the owned addresses in any order, one of them possibly twice.
BackendList(b) ==
    LET S == keys[b]
        n == Cardinality(S)
    IN  {l \in UNION {[1..k -> S] : k \in n..(n + 1)} : Range(l) = S}

BackendLocal(o) == IF present["Local"] THEN {"ok", "err"} ELSE {"panic", "ok", "err"}

\* ---- Has / Sign / Export / Delete: the entry of the handler
WalletHas(p, a) ==
    /\ Idle(p)
    /\ call' = [call EXCEPT ![p] = StartFind(NewCall("Has", a, "none"), HasOrder)]
    /\ UNCHANGED <<present, keys>>

WalletSign(p, a) ==
    /\ Idle(p)
    /\ call' = [call EXCEPT ![p] = StartFind(NewCall("Sign", a, "none"), HasOrder)]
    /\ UNCHANGED <<present, keys>>

WalletExport(p, a) ==
    /\ Idle(p)
    /\ call' = [call EXCEPT ![p] = StartFind(NewCall("Export", a, "none"), ExportOrder)]
    /\ UNCHANGED <<present, keys>>

WalletDelete(p, a) ==
    /\ Idle(p)
    /\ call' = [call EXCEPT ![p] = StartFind(NewCall("Delete", a, "none"), HasOrder)]
    /\ UNCHANGED <<present, keys>>

\* What the handler does when find returns an error.
findFailed_FallThrough(c, b) == [c EXCEPT !.ws = Tail(@)]
findFailed(c, b) ==
    Done(c, Ret("err", BackendError(b, "HasKey"),
                IF c.op = "Has" THEN <<FALSE>> ELSE <<>>))

\* What the handler does when find returns the owner b.
findFound_KeepSearching(c, b) == [c EXCEPT !.w = b, !.ws = Tail(@)]
findFound(c, b) ==
    IF c.op = "Has"
    THEN Done([c EXCEPT !.w = b], Ret("ok", NoErr, <<TRUE>>))
    ELSE [c EXCEPT !.w = b, !.pc = "call"]

\* What the handler does when find returns no owner.
findMissing_AlwaysNotFound(c) ==
    IF c.op = "Has" THEN Done(c, Ret("ok", NoErr, <<FALSE>>))
    ELSE Done(c, Ret("err", KeyNotFound(c.op), <<>>))
findMissing_NoNilCheck(c) ==
    CASE c.op = "Has" -> Done(c, Ret("ok", NoErr, <<FALSE>>))
      [] c.op = "Delete" -> Done(c, Ret("ok", NoErr, <<>>))
      [] OTHER -> Done(c, Ret("panic", NoErr, <<>>))
findMissing(c) ==
    CASE c.op = "Has" -> Done(c, Ret("ok", NoErr, <<FALSE>>))
      [] c.op = "Delete" -> Done(c, Ret("ok", NoErr, <<>>))
      [] OTHER -> Done(c, Ret("err", KeyNotFound(c.op), <<>>))

\* One iteration of find's loop: WalletHas on the next present backend.
find(p) ==
    LET c == call[p]
        b == Head(c.ws)
    IN  /\ c.pc = "find"
        /\ c.ws # <<>>
        /\ \E r \in BackendHasKey(b, c.addr) :
             LET c1 == [c EXCEPT !.log = Append(@, Entry(b, "HasKey", r, <<>>))]
             IN  call' = [call EXCEPT ![p] =
                    CASE r = "err" -> findFailed(c1, b)
                      [] r = "true" -> findFound(c1, b)
                      [] OTHER -> [c1 EXCEPT !.ws = Tail(@)]]
        /\ UNCHANGED <<present, keys>>

\* find's loop is exhausted: it returns nil, nil.
findNone(p) ==
    LET c == call[p]
    IN  /\ c.pc = "find"
        /\ c.ws = <<>>
        /\ call' = [call EXCEPT ![p] = findMissing(c)]
        /\ UNCHANGED <<present, keys>>

\* ---- the call dispatched to the owner
ownerError(b, m, r) ==
    IF r = "notfound" THEN <<"KeyNotFound", b, m>> ELSE BackendError(b, m)

WalletSignCall(p) ==
    LET c == call[p]
    IN  /\ c.pc = "call"
        /\ c.op = "Sign"
        /\ \E r \in BackendCall(c.w, c.addr) :
             LET c1 == [c EXCEPT !.log = Append(@, Entry(c.w, "Sign", r, <<>>))]
             IN  call' = [call EXCEPT ![p] =
                    IF r = "ok" THEN Done(c1, Ret("ok", NoErr, <<c.w>>))
                    ELSE Done(c1, Ret("err", ownerError(c.w, "Sign", r), <<>>))]
        /\ UNCHANGED <<present, keys>>

WalletExportCall(p) ==
    LET c == call[p]
    IN  /\ c.pc = "call"
        /\ c.op = "Export"
        /\ \E r \in BackendCall(c.w, c.addr) :
             LET c1 == [c EXCEPT !.log = Append(@, Entry(c.w, "Export", r, <<>>))]
             IN  call' = [call EXCEPT ![p] =
                    IF r = "ok" THEN Done(c1, Ret("ok", NoErr, <<c.w>>))
                    ELSE Done(c1, Ret("err", ownerError(c.w, "Export", r), <<>>))]
        /\ UNCHANGED <<present, keys>>

\* The backend whose WalletDelete the loop of WalletDelete calls.
deleteTarget_FirstPresent(c) == Head(nonNil(HasOrder))
deleteTarget(c) == c.w

\* After a successful delete the loop of WalletDelete runs find again.
afterDelete_Return(c) == Done(c, Ret("ok", NoErr, <<>>))
afterDelete(c) == StartFind(c, HasOrder)

\* A failing w.WalletDelete ends the loop with its error.
deleteFailed_Retry(c, b) == StartFind(c, HasOrder)
deleteFailed(c, b) == Done(c, Ret("err", BackendError(b, "Delete"), <<>>))

WalletDeleteCall(p) ==
    LET c == call[p]
        b == deleteTarget(c)
    IN  /\ c.pc = "call"
        /\ c.op = "Delete"
        /\ \E r \in BackendDelete(b, c.addr) :
             LET c1 == [c EXCEPT !.log = Append(@, Entry(b, "Delete", r, <<>>))]
             IN  IF r = "ok"
                 THEN /\ keys' = [keys EXCEPT ![b] = @ \ {c.addr}]
                      /\ call' = [call EXCEPT ![p] = afterDelete(c1)]
                 ELSE /\ keys' = keys
                      /\ call' = [call EXCEPT ![p] = deleteFailed(c1, b)]
        /\ UNCHANGED present

\* ---- New / Import: routed by key type
typeCandidate_AlwaysLocal(kt) == "Local"
typeCandidate(kt) == IF kt = KTSecp256k1Ledger THEN "Ledger" ELSE "Local"

createOrder(kt) == <<"Remote", typeCandidate(kt)>>

\* WalletImport chooses its candidate from info.Type with code of its own.
importCandidate_AlwaysLocal(kt) == "Local"
importCandidate(kt) == IF kt = KTSecp256k1Ledger THEN "Ledger" ELSE "Local"

importOrder(kt) == <<"Remote", importCandidate(kt)>>

\* The handler up to the choice of the target; no target is the handler's error.
route(c) ==
    LET wallets == IF c.op = "Import" THEN importOrder(c.ktype) ELSE createOrder(c.ktype)
        t == firstNonNil(wallets)
        c1 == [c EXCEPT !.probed = @ \o firstNonNilProbes(wallets)]
    IN  IF t = "nil"
        THEN Done(c1, Ret("err", NoBackendAvailable(c.op), <<Undef>>))
        ELSE [c1 EXCEPT !.w = t, !.pc = "call"]

WalletNew(p, kt) ==
    /\ Idle(p)
    /\ call' = [call EXCEPT ![p] = route(NewCall("New", Undef, kt))]
    /\ UNCHANGED <<present, keys>>

WalletImport(p, kt, a) ==
    /\ Idle(p)
    /\ call' = [call EXCEPT ![p] = route(NewCall("Import", a, kt))]
    /\ UNCHANGED <<present, keys>>

\* A failing w.WalletNew is returned as it is.
newFailed_FallBackLocal(c) == [c EXCEPT !.w = "Local"]
newFailed(c) == Done(c, Ret("err", BackendError(c.w, "Create"), <<Undef>>))

WalletNewCall(p) ==
    LET c == call[p]
    IN  /\ c.pc = "call"
        /\ c.op = "New"
        /\ \E r \in BackendCreate(c.w) :
             LET c1 == [c EXCEPT !.log = Append(@, Entry(c.w, "Create", r[1], <<r[2]>>))]
             IN  IF r[1] = "ok"
                 THEN /\ keys' = [keys EXCEPT ![c.w] = @ \cup {r[2]}]
                      /\ call' = [call EXCEPT ![p] = Done(c1, Ret("ok", NoErr, <<r[2]>>))]
                 ELSE /\ keys' = keys
                      /\ call' = [call EXCEPT ![p] = newFailed(c1)]
        /\ UNCHANGED present

WalletImportCall(p) ==
    LET c == call[p]
    IN  /\ c.pc = "call"
        /\ c.op = "Import"
        /\ \E r \in BackendImport(c.w, c.addr) :
             LET c1 == [c EXCEPT !.log = Append(@, Entry(c.w, "Import", r, <<c.addr>>))]
             IN  IF r = "ok"
                 THEN /\ keys' = [keys EXCEPT ![c.w] = @ \cup {c.addr}]
                      /\ call' = [call EXCEPT ![p] = Done(c1, Ret("ok", NoErr, <<c.addr>>))]
                 ELSE /\ keys' = keys
                      /\ call' = [call EXCEPT ![p] =
                            Done(c1, Ret("err", BackendError(c.w, "Import"), <<Undef>>))]
        /\ UNCHANGED present

\* ---- List
\* The inner loop of WalletList over one backend's list l.
appendUnseen_KeepAll(l, out, seen) == [out |-> out \o l, seen |-> seen \cup Range(l)]
RECURSIVE appendUnseen(_, _, _)
appendUnseen(l, out, seen) ==
    IF l = <<>> THEN [out |-> out, seen |-> seen]
    ELSE IF Head(l) \in seen
         THEN appendUnseen(Tail(l), out, seen)
         ELSE appendUnseen(Tail(l), Append(out, Head(l)), seen \cup {Head(l)})

\* What WalletList returns when a backend's WalletList fails.
listFailed_Partial(c, b) == Done(c, Ret("err", BackendError(b, "List"), c.out))
listFailed(c, b) == Done(c, Ret("err", BackendError(b, "List"), <<>>))

WalletList(p) ==
    /\ Idle(p)
    /\ call' = [call EXCEPT ![p] =
          [NewCall("List", Undef, "none") EXCEPT
              !.pc = "list", !.ws = nonNil(ListOrder), !.probed = ListOrder]]
    /\ UNCHANGED <<present, keys>>

\* One iteration of the outer loop: WalletList on the next present backend.
WalletListCall(p) ==
    LET c == call[p]
        b == Head(c.ws)
    IN  /\ c.pc = "list"
        /\ c.ws # <<>>
        /\ \/ call' = [call EXCEPT ![p] =
                 listFailed([c EXCEPT !.log = Append(@, Entry(b, "List", "err", <<>>))], b)]
           \/ \E l \in BackendList(b) :
                LET acc == appendUnseen(l, c.out, c.seen)
                IN  call' = [call EXCEPT ![p] =
                       [c EXCEPT !.log = Append(@, Entry(b, "List", "ok", l)),
                                 !.out = acc.out, !.seen = acc.seen,
                                 !.ws = Tail(@)]]
        /\ UNCHANGED <<present, keys>>

WalletListReturn(p) ==
    LET c == call[p]
    IN  /\ c.pc = "list"
        /\ c.ws = <<>>
        /\ call' = [call EXCEPT ![p] = Done(c, Ret("ok", NoErr, c.out))]
        /\ UNCHANGED <<present, keys>>

\* ---- the operations forwarded to Local alone
localArgs(o) == IF o \in {"DeleteKey2", "WalletSignMessage2"} THEN Addr ELSE {Undef}

\* The backend a Local-only operation is forwarded to.
localTarget_SignRemote(o) == IF o = "WalletSignMessage2" THEN "Remote" ELSE "Local"
localTarget(o) == "Local"

LocalOnly(p, o, a) ==
    LET b == localTarget(o)
    IN  /\ Idle(p)
        /\ \E r \in BackendLocal(o) :
             /\ call' = [call EXCEPT ![p] =
                   Done([NewCall(o, a, "none") EXCEPT
                            !.w = b, !.log = <<Entry(b, o, r, <<>>)>>],
                        CASE r = "ok" -> Ret("ok", NoErr, <<>>)
                          [] r = "err" -> Ret("err", BackendError(b, o), <<>>)
                          [] OTHER -> Ret("panic", NoErr, <<>>))]
             /\ keys' = IF o = "DeleteKey2" /\ r = "ok"
                        THEN [keys EXCEPT ![b] = @ \ {a}]
                        ELSE keys
        /\ UNCHANGED present

\* The handler has returned; the caller has its result and is free to call again.
Return(p) ==
    /\ call[p].pc = "done"
    /\ call' = [call EXCEPT ![p] = NoCall]
    /\ UNCHANGED <<present, keys>>

\* ---- the system
Init ==
    /\ present \in [Backends -> BOOLEAN]
    /\ keys \in [Backends -> SUBSET Addr]
    /\ \A b \in Backends : ~present[b] => keys[b] = {}
    /\ call = [p \in Procs |-> NoCall]

\* One caller at a time: the calls of caller 1 follow one another.
Next ==
    \E p \in {1} :
        \/ \E a \in Addr : WalletHas(p, a)
        \/ \E a \in Addr : WalletSign(p, a)
        \/ \E a \in Addr : WalletExport(p, a)
        \/ \E a \in Addr : WalletDelete(p, a)
        \/ find(p)
        \/ findNone(p)
        \/ WalletSignCall(p)
        \/ WalletExportCall(p)
        \/ WalletDeleteCall(p)
        \/ \E kt \in KeyTypes : WalletNew(p, kt)
        \/ \E kt \in KeyTypes, a \in Addr : WalletImport(p, kt, a)
        \/ WalletNewCall(p)
        \/ WalletImportCall(p)
        \/ WalletList(p)
        \/ WalletListCall(p)
        \/ WalletListReturn(p)
        \/ \E o \in LocalOps : \E a \in localArgs(o) : LocalOnly(p, o, a)
        \/ Return(p)

Spec == Init /\ [][Next]_vars

\* Delete alone, with a running handler always taking its next step (every
\* backend call returns).
NextDelete ==
    \E p \in {1} :
        \/ \E a \in Addr : WalletDelete(p, a)
        \/ find(p)
        \/ findNone(p)
        \/ WalletDeleteCall(p)
        \/ Return(p)

DeleteStep == \E p \in {1} : find(p) \/ findNone(p) \/ WalletDeleteCall(p)

SpecDelete == Init /\ [][NextDelete]_vars /\ WF_vars(DeleteStep)

\* Every caller deletes the same address through the one router, once, their
\* backend calls interleaved; no backend call fails, and while a handler is
\* running some running handler takes its next step.
Contended == CHOOSE a \in Addr : \A b \in Addr : a <= b

InitConcurrent ==
    /\ Init
    /\ \A b \in Backends : keys[b] \subseteq {Contended}

\* The backend call caller p has just made did not fail.
Answered(p) ==
    LET l == call[p].log
    IN  l = <<>> \/ l[Len(l)].r # "err"

HandlerStep(p) == (find(p) \/ findNone(p) \/ WalletDeleteCall(p)) /\ Answered(p)'

NextConcurrent ==
    \E p \in Procs :
        \/ WalletDelete(p, Contended)
        \/ find(p) /\ Answered(p)'
        \/ findNone(p)
        \/ WalletDeleteCall(p) /\ Answered(p)'

SpecConcurrent ==
    /\ InitConcurrent
    /\ [][NextConcurrent]_vars
    /\ WF_vars(\E p \in Procs : HandlerStep(p))

\* ======================================================================
\* Properties
\* ======================================================================

\* The priority order of the specification, written out independently.
PriorityOrder == <<"Remote", "Ledger", "Local">>

\* The first present backend of order that owns a under ownership K; "nil" if none.
ExpectedOwner(order, K, a) ==
    LET own == {i \in DOMAIN order : present[order[i]] /\ a \in K[order[i]]}
    IN  IF own = {} THEN "nil"
        ELSE order[CHOOSE i \in own : \A j \in own : i <= j]

\* The positions of the calls of method m in the log of call c.
CallsOf(c, m) == {i \in DOMAIN c.log : c.log[i].m = m}

NoFailure(c, m) == \A i \in CallsOf(c, m) : c.log[i].r # "err"

\* C1: in Has and Sign with no failing HasKey call, the owner is the first
\* backend in the order Remote, Ledger, Local that is present and owns the
\* address; absent backends are never called; Has returns true iff there is
\* such a backend; Sign is dispatched to that backend and to no other.
C1_SearchOrder ==
    \A p \in Procs :
        LET c == call[p]
            o == ExpectedOwner(PriorityOrder, c.keys0, c.addr)
        IN  (c.op \in {"Has", "Sign"} /\ NoFailure(c, "HasKey")) =>
              /\ \A i \in DOMAIN c.log : present[c.log[i].b]
              /\ c.pc = "call" => c.w = o /\ o # "nil"
              /\ (c.pc = "done" /\ c.op = "Has") =>
                    c.result = Ret("ok", NoErr, <<o # "nil">>)
              /\ (c.pc = "done" /\ c.op = "Sign") =>
                    IF o = "nil"
                    THEN /\ CallsOf(c, "Sign") = {}
                         /\ c.result.kind = "err"
                    ELSE /\ CallsOf(c, "Sign") = {Len(c.log)}
                         /\ c.log[Len(c.log)].b = o
                         /\ c.result.kind = "ok" => c.result.val = <<o>>

\* A key owned by Local alone, Remote and Ledger present: Local has signed.
C1_Witness ==
    LET c == call[1]
    IN  /\ c.pc = "done" /\ c.op = "Sign"
        /\ \A b \in Backends : present[b]
        /\ \A b \in Backends : c.addr \in c.keys0[b] <=> b = "Local"
        /\ Len(c.log) = 4
        /\ c.log[4] = Entry("Local", "Sign", "ok", <<>>)
        /\ c.result = Ret("ok", NoErr, <<"Local">>)

\* C2: a failing HasKey call ends Has, Sign, Export and Delete at once: it is
\* the last backend call of the operation, and the operation returns that
\* error, whichever lower-priority backend owns the address.
C2_FailFast ==
    \A p \in Procs :
        LET c == call[p]
        IN  \A i \in CallsOf(c, "HasKey") :
                c.log[i].r = "err" =>
                  /\ c.op \in {"Has", "Sign", "Export", "Delete"}
                  /\ i = Len(c.log)
                  /\ c.pc = "done"
                  /\ c.result.kind = "err"
                  /\ c.result.err = BackendError(c.log[i].b, "HasKey")
                  /\ c.op = "Has" => c.result.val = <<FALSE>>

\* Remote.HasKey fails while Local owns the address: Sign has failed with it.
C2_Witness ==
    LET c == call[1]
    IN  /\ c.pc = "done" /\ c.op = "Sign"
        /\ present["Remote"] /\ present["Local"]
        /\ c.addr \in keys["Local"]
        /\ c.log = <<Entry("Remote", "HasKey", "err", <<>>)>>
        /\ c.result = Ret("err", BackendError("Remote", "HasKey"), <<>>)

\* The target of New and Import as the specification states it.
ExpectedTarget(kt) ==
    IF present["Remote"] THEN "Remote"
    ELSE IF kt = "secp256k1-ledger"
         THEN (IF present["Ledger"] THEN "Ledger" ELSE "nil")
         ELSE (IF present["Local"] THEN "Local" ELSE "nil")

\* C3: New calls Create on exactly one backend: Remote if present, else
\* Ledger for the ledger key type if present, else Local for an ordinary type
\* if present; with no such backend it fails with NoBackendAvailable and
\* calls no backend.
C3_CreationRouting ==
    \A p \in Procs :
        LET c == call[p]
            t == ExpectedTarget(c.ktype)
        IN  c.op = "New" =>
              /\ c.pc = "call" => t # "nil" /\ c.w = t /\ c.log = <<>>
              /\ c.pc = "done" =>
                    IF t = "nil"
                    THEN /\ c.log = <<>>
                         /\ c.result = Ret("err", NoBackendAvailable("New"), <<Undef>>)
                    ELSE /\ Len(c.log) = 1
                         /\ c.log[1].b = t
                         /\ c.log[1].m = "Create"

\* New of the ledger key type with Local alone present has failed.
C3_Witness ==
    LET c == call[1]
    IN  /\ c.pc = "done" /\ c.op = "New" /\ c.ktype = "secp256k1-ledger"
        /\ present["Local"] /\ ~present["Remote"] /\ ~present["Ledger"]
        /\ c.log = <<>>
        /\ c.result.err = NoBackendAvailable("New")

\* C4: whenever Delete returns success, no present backend owns the address
\* any more (so Has finds no owner), whatever number of backends owned it.
C4_DeleteConvergence ==
    \A p \in Procs :
        LET c == call[p]
        IN  (c.op = "Delete" /\ c.pc = "done" /\ c.result.kind = "ok") =>
              /\ \A b \in Backends : present[b] => c.addr \notin keys[b]
              /\ ExpectedOwner(PriorityOrder, keys, c.addr) = "nil"

\* The address was owned by Remote and Local at once and Delete has succeeded.
C4_Witness ==
    LET c == call[1]
    IN  /\ c.op = "Delete" /\ c.pc = "done" /\ c.result.kind = "ok"
        /\ c.addr \in c.keys0["Remote"] /\ c.addr \in c.keys0["Local"]
        /\ Cardinality(CallsOf(c, "Delete")) >= 2

\* The backends that owned the address when call c began.
OwnersAtStart(c) == {b \in Backends : present[b] /\ c.addr \in c.keys0[b]}

DeleteBounded ==
    \A p \in Procs :
        LET c == call[p]
            dels == CallsOf(c, "Delete")
        IN  c.op = "Delete" =>
              /\ \A i \in dels : c.log[i].b \in OwnersAtStart(c)
              /\ \A i, j \in dels : c.log[i].b = c.log[j].b => i = j
              /\ Cardinality(dels) <= 3
              /\ c.passes <= Cardinality(dels) + 1
              /\ (c.pc = "done" /\ c.result.kind = "ok") =>
                    /\ {c.log[i].b : i \in dels} = OwnersAtStart(c)
                    /\ c.passes = Cardinality(dels) + 1

\* C5: Delete returns: a running Delete eventually is done; it calls Delete at
\* most once per backend that owned the address at the start (at most 3
\* times), and on success has made one more resolution pass than Delete calls.
C5_DeleteTerminates ==
    /\ []DeleteBounded
    /\ \A p \in Procs :
          (call[p].op = "Delete" /\ call[p].pc # "done") ~> (call[p].pc = "done")

\* All three backends owned the address: three deletes, four passes, success.
C5_Witness ==
    LET c == call[1]
    IN  /\ c.op = "Delete" /\ c.pc = "done" /\ c.result.kind = "ok"
        /\ OwnersAtStart(c) = Backends
        /\ Cardinality(CallsOf(c, "Delete")) = 3
        /\ c.passes = 4

\* C6: when no present backend owns the address, Delete makes a single
\* resolution pass and calls Delete on no backend, and (every HasKey call
\* having answered) returns success.
C6_NoOpDelete ==
    \A p \in Procs :
        LET c == call[p]
        IN  (c.op = "Delete" /\ OwnersAtStart(c) = {}) =>
              /\ c.passes = 1
              /\ CallsOf(c, "Delete") = {}
              /\ c.pc # "call"
              /\ (c.pc = "done" /\ NoFailure(c, "HasKey")) =>
                    c.result = Ret("ok", NoErr, <<>>)

\* Three present backends, none owning the address: success after three HasKey.
C6_Witness ==
    LET c == call[1]
    IN  /\ c.op = "Delete" /\ c.pc = "done"
        /\ \A b \in Backends : present[b] /\ c.addr \notin c.keys0[b]
        /\ Len(c.log) = 3
        /\ c.passes = 1
        /\ c.result = Ret("ok", NoErr, <<>>)

RECURSIVE Flatten(_)
Flatten(ss) == IF ss = <<>> THEN <<>> ELSE Head(ss) \o Flatten(Tail(ss))

\* Everything the backends reported to call c, in the order reported.
Reported(c) == Flatten([i \in DOMAIN c.log |-> c.log[i].v])

FirstIndex(s, x) == CHOOSE i \in DOMAIN s : s[i] = x /\ \A j \in 1..(i - 1) : s[j] # x

PresentInOrder(order) ==
    LET isPresent(b) == present[b]
    IN  SelectSeq(order, isPresent)

\* C7: with no ListAddresses failure, List queries the present backends in
\* the order Remote, Ledger, Local and returns their lists concatenated,
\* every address kept once, at its first occurrence; no backend gives <<>>.
C7_ListDedup ==
    \A p \in Procs :
        LET c == call[p]
            r == c.result.val
            all == Reported(c)
        IN  (c.op = "List" /\ c.pc = "done" /\ NoFailure(c, "List")) =>
              /\ c.result.kind = "ok"
              /\ [i \in DOMAIN c.log |-> c.log[i].b] = PresentInOrder(PriorityOrder)
              /\ \A i, j \in DOMAIN r : r[i] = r[j] => i = j
              /\ Range(r) = Range(all)
              /\ \A i, j \in DOMAIN r :
                    i < j => FirstIndex(all, r[i]) < FirstIndex(all, r[j])
              /\ (\A b \in Backends : ~present[b]) => r = <<>>

\* Remote reports <<2, 1, 2>>, Local reports <<1, 2>>: List returns <<2, 1>>.
C7_Witness ==
    LET c == call[1]
    IN  /\ c.op = "List" /\ c.pc = "done"
        /\ Len(c.log) >= 2
        /\ c.log[1] = Entry("Remote", "List", "ok", <<2, 1, 2>>)
        /\ c.log[Len(c.log)] = Entry("Local", "List", "ok", <<1, 2>>)
        /\ c.result = Ret("ok", NoErr, <<2, 1>>)

\* C8: a failing ListAddresses call is the last backend call of List, and
\* List returns that error and no address.
C8_ListAllOrNothing ==
    \A p \in Procs :
        LET c == call[p]
        IN  \A i \in CallsOf(c, "List") :
                c.log[i].r = "err" =>
                  /\ i = Len(c.log)
                  /\ c.pc = "done"
                  /\ c.result = Ret("err", BackendError(c.log[i].b, "List"), <<>>)

\* Remote has reported addresses, Ledger fails, Local is never asked.
C8_Witness ==
    LET c == call[1]
    IN  /\ c.op = "List" /\ c.pc = "done"
        /\ \A b \in Backends : present[b]
        /\ Len(c.log) = 2
        /\ c.log[1].b = "Remote" /\ c.log[1].v # <<>>
        /\ c.log[2] = Entry("Ledger", "List", "err", <<>>)
        /\ c.out # <<>>
        /\ c.result = Ret("err", BackendError("Ledger", "List"), <<>>)

\* C9: Export never probes or calls Ledger; whenever it dispatches, the target
\* is the first of Remote, Local that is present and owns the address; with
\* every HasKey call answering, it dispatches iff there is such a backend and
\* returns KeyNotFound otherwise, also for an address Ledger owns.
C9_ExportSkipsLedger ==
    \A p \in Procs :
        LET c == call[p]
            o == ExpectedOwner(<<"Remote", "Local">>, c.keys0, c.addr)
        IN  c.op = "Export" =>
              /\ \A i \in DOMAIN c.log : c.log[i].b # "Ledger"
              /\ \A i \in DOMAIN c.probed : c.probed[i] # "Ledger"
              /\ c.pc = "call" => c.w = o /\ o # "nil"
              /\ \A i \in CallsOf(c, "Export") : c.log[i].b = o /\ i = Len(c.log)
              /\ (c.pc = "done" /\ NoFailure(c, "HasKey")) =>
                    IF o = "nil"
                    THEN /\ CallsOf(c, "Export") = {}
                         /\ c.result = Ret("err", KeyNotFound("Export"), <<>>)
                    ELSE CallsOf(c, "Export") = {Len(c.log)}

\* Ledger alone owns the address (Has would find it): Export says KeyNotFound.
C9_Witness ==
    LET c == call[1]
    IN  /\ c.op = "Export" /\ c.pc = "done"
        /\ \A b \in Backends : present[b]
        /\ \A b \in Backends : c.addr \in c.keys0[b] <=> b = "Ledger"
        /\ ExpectedOwner(PriorityOrder, c.keys0, c.addr) = "Ledger"
        /\ Len(c.log) = 2
        /\ c.result = Ret("err", KeyNotFound("Export"), <<>>)

\* C10: ChangePassphrase, ClearPassphrase, IsLocked, Lock, Unlock and
\* SignWithPassphrase make exactly one backend call, to Local, and neither
\* probe nor call Remote or Ledger, whoever is present or owns the address.
C10_LocalOnly ==
    \A p \in Procs :
        LET c == call[p]
        IN  c.op \in {"WalletChangePasswd", "WalletClearPasswd", "WalletIsLock",
                      "WalletLock", "WalletUnlock", "WalletSignMessage2"} =>
              /\ c.pc = "done"
              /\ Len(c.log) = 1
              /\ c.log[1].b = "Local"
              /\ c.log[1].m = c.op
              /\ c.probed = <<>>

\* SignWithPassphrase for an address Remote alone owns went to Local.
C10_Witness ==
    LET c == call[1]
    IN  /\ c.op = "WalletSignMessage2" /\ c.pc = "done"
        /\ \A b \in Backends : present[b]
        /\ \A b \in Backends : c.addr \in keys[b] <=> b = "Remote"
        /\ c.log = <<Entry("Local", "WalletSignMessage2", "ok", <<>>)>>

\* C11: a Local-only operation called with Local absent returns
\* NoBackendAvailable and makes no call on the absent backend.
C11_LocalAbsent ==
    \A p \in Procs :
        LET c == call[p]
        IN  (c.op \in {"WalletChangePasswd", "WalletClearPasswd", "WalletIsLock",
                       "WalletLock", "WalletUnlock", "WalletSignMessage2"}
             /\ c.pc = "done" /\ ~present["Local"]) =>
              /\ c.log = <<>>
              /\ c.result.kind = "err"
              /\ c.result.err = NoBackendAvailable(c.op)

\* C12: Import targets the backend New targets for the same key type
\* (Remote if present, else Ledger for the ledger type, else Local), calls
\* Import on that backend alone, and fails with NoBackendAvailable without
\* any backend call exactly when New does.
C12_ImportRoutesLikeNew ==
    \A p \in Procs :
        LET c == call[p]
            t == ExpectedTarget(c.ktype)
            n == route(NewCall("New", Undef, c.ktype))
        IN  c.op = "Import" =>
              /\ c.pc = "call" =>
                    /\ t # "nil" /\ c.w = t /\ c.log = <<>>
                    /\ n.pc = "call" /\ n.w = c.w
              /\ c.pc = "done" =>
                    IF t = "nil"
                    THEN /\ c.log = <<>>
                         /\ c.result = Ret("err", NoBackendAvailable("Import"), <<Undef>>)
                         /\ n.pc = "done"
                         /\ n.result.err = NoBackendAvailable("New")
                    ELSE /\ Len(c.log) = 1
                         /\ c.log[1].b = t
                         /\ c.log[1].m = "Import"
                         /\ n.pc = "call" /\ n.w = t

\* Import of a ledger key with Ledger and Local present (no Remote) went to Ledger.
C12_Witness ==
    LET c == call[1]
    IN  /\ c.op = "Import" /\ c.pc = "done" /\ c.ktype = "secp256k1-ledger"
        /\ ~present["Remote"] /\ present["Ledger"] /\ present["Local"]
        /\ c.log = <<Entry("Ledger", "Import", "ok", <<c.addr>>)>>
        /\ c.addr \in keys["Ledger"]

\* C13: when every HasKey call answers and no present backend owns the
\* address (also with no backend configured), Sign and Export fail with
\* KeyNotFound and call Sign/Export on no backend, Has returns false without
\* error, and Delete returns success.
C13_KeyNotFound ==
    \A p \in Procs :
        LET c == call[p]
        IN  (c.pc = "done" /\ NoFailure(c, "HasKey") /\ OwnersAtStart(c) = {}) =>
              /\ c.op \in {"Sign", "Export"} =>
                    /\ c.result = Ret("err", KeyNotFound(c.op), <<>>)
                    /\ CallsOf(c, "Sign") = {} /\ CallsOf(c, "Export") = {}
              /\ c.op = "Has" => c.result = Ret("ok", NoErr, <<FALSE>>)
              /\ c.op = "Delete" =>
                    /\ c.result = Ret("ok", NoErr, <<>>)
                    /\ CallsOf(c, "Delete") = {}

\* Sign with no backend configured at all: KeyNotFound, no backend call.
C13_Witness ==
    LET c == call[1]
    IN  /\ c.op = "Sign" /\ c.pc = "done"
        /\ \A b \in Backends : ~present[b]
        /\ c.log = <<>>
        /\ c.result = Ret("err", KeyNotFound("Sign"), <<>>)

\* C14: a failing HasKey or Delete call is the last backend call of Delete,
\* and Delete returns that error; Delete returns either success with the
\* address unowned by every present backend, or an error.
C14_DeleteAborts ==
    \A p \in Procs :
        LET c == call[p]
        IN  c.op = "Delete" =>
              /\ \A i \in DOMAIN c.log :
                    c.log[i].r = "err" =>
                      /\ i = Len(c.log)
                      /\ c.pc = "done"
                      /\ c.result = Ret("err", BackendError(c.log[i].b, c.log[i].m), <<>>)
              /\ c.pc = "done" =>
                    \/ /\ c.result.kind = "ok"
                       /\ \A b \in Backends : present[b] => c.addr \notin keys[b]
                    \/ /\ c.result.kind = "err"
                       /\ c.log # <<>>
                       /\ c.log[Len(c.log)].r = "err"

\* Remote and Local own the address; Remote's Delete fails: nothing else is called.
C14_Witness ==
    LET c == call[1]
    IN  /\ c.op = "Delete" /\ c.pc = "done"
        /\ c.addr \in keys["Remote"] /\ c.addr \in keys["Local"]
        /\ c.log = <<Entry("Remote", "HasKey", "true", <<>>),
                     Entry("Remote", "Delete", "err", <<>>)>>
        /\ c.result = Ret("err", BackendError("Remote", "Delete"), <<>>)

\* C15: the call New, Import, Sign or Export dispatches to its target is the
\* last backend call of the operation and is made once; its failure is the
\* operation's result, unchanged.
C15_NoRetryNoFallback ==
    \A p \in Procs :
        LET c == call[p]
            disp == {i \in DOMAIN c.log : c.log[i].m \in {"Create", "Import", "Sign", "Export"}}
        IN  c.op \in {"New", "Import", "Sign", "Export"} =>
              /\ Cardinality(disp) <= 1
              /\ \A i \in disp :
                    /\ i = Len(c.log)
                    /\ c.pc = "done"
                    /\ c.log[i].r # "ok" =>
                          /\ c.result.kind = "err"
                          /\ c.result.err = BackendError(c.log[i].b, c.log[i].m)

\* Remote.Create fails with Local present: New fails, Local is not tried.
C15_Witness ==
    LET c == call[1]
    IN  /\ c.op = "New" /\ c.pc = "done" /\ c.ktype = "secp256k1"
        /\ present["Remote"] /\ present["Local"]
        /\ c.log = <<Entry("Remote", "Create", "err", <<Undef>>)>>
        /\ c.result.err = BackendError("Remote", "Create")

\* The search order of the operation of call c, as the specification gives it.
OrderOf(c) == IF c.op = "Export" THEN <<"Remote", "Local">> ELSE PriorityOrder

\* The position before the resolution pass that log position i belongs to.
PassStart(c, i) ==
    LET before == {j \in CallsOf(c, "Delete") : j < i}
    IN  IF before = {} THEN 0 ELSE CHOOSE j \in before : \A k \in before : k <= j

\* C16: within a resolution pass of Has, Sign, Export and Delete the HasKey
\* calls go down the present backends in priority order, each after all the
\* earlier ones answered false, and none follows an answer of true: an owning
\* or failing lower-priority backend is never reached past an owner.
C16_SequentialPriority ==
    \A p \in Procs :
        LET c == call[p]
            order == PresentInOrder(OrderOf(c))
        IN  c.op \in {"Has", "Sign", "Export", "Delete"} =>
              \A i \in CallsOf(c, "HasKey") :
                  LET s == PassStart(c, i)
                  IN  /\ i - s <= Len(order)
                      /\ \A k \in (s + 1)..i :
                            /\ c.log[k].m = "HasKey"
                            /\ c.log[k].b = order[k - s]
                            /\ k < i => c.log[k].r = "false"
                      /\ (c.log[i].r = "true" /\ i < Len(c.log)) =>
                            /\ c.log[i + 1].m # "HasKey"
                            /\ c.log[i + 1].b = c.log[i].b

\* Remote and Local both own the address: Sign asked Remote alone and Remote signed.
C16_Witness ==
    LET c == call[1]
    IN  /\ c.op = "Sign" /\ c.pc = "done"
        /\ \A b \in Backends : present[b]
        /\ c.addr \in keys["Remote"] /\ c.addr \in keys["Local"]
        /\ c.log = <<Entry("Remote", "HasKey", "true", <<>>),
                     Entry("Remote", "Sign", "ok", <<>>)>>

\* In one step the call of at most one caller changes.
OneCallerMoves == Cardinality({p \in Procs : call'[p] # call[p]}) <= 1

ConcurrentDeleteSafe ==
    \A p \in Procs :
        LET c == call[p]
        IN  (c.op = "Delete" /\ c.pc = "done") =>
              /\ c.result = Ret("ok", NoErr, <<>>)
              /\ \A b \in Backends : present[b] => c.addr \notin keys[b]

\* A running Delete can always take its next step, and has made at most four
\* resolution passes and three Delete calls.
ConcurrentDeleteProgress ==
    \A p \in Procs :
        LET c == call[p]
        IN  (c.op = "Delete" /\ c.pc # "done") =>
              /\ ENABLED HandlerStep(p)
              /\ c.passes <= 4
              /\ Cardinality(CallsOf(c, "Delete")) <= 3
              /\ \A i, j \in CallsOf(c, "Delete") : c.log[i].b = c.log[j].b => i = j

\* Every step of a running Delete is one more backend call, or its return.
ConcurrentDeleteAdvances ==
    \A p \in Procs :
        (call'[p] # call[p] /\ call[p].pc \in {"find", "call"}) =>
            \/ Len(call'[p].log) = Len(call[p].log) + 1
            \/ call'[p].pc = "done"

\* C17: concurrent Delete calls for one address, interleaved at the backend
\* calls and with no failing call: every call returns (it is never blocked and
\* makes a bounded number of backend calls), with success, and from then on
\* no present backend owns the address; a step of one call changes nothing
\* of another call.
C17_ConcurrentDeletes ==
    /\ []ConcurrentDeleteSafe
    /\ []ConcurrentDeleteProgress
    /\ [][OneCallerMoves /\ ConcurrentDeleteAdvances]_vars

\* Both callers saw Remote own the address and both called its Delete (the
\* second on a non-owner); Local owned it too; both have returned success.
C17_Witness ==
    /\ \A p \in {1, 2} :
          /\ call[p].op = "Delete" /\ call[p].pc = "done"
          /\ call[p].result.kind = "ok"
          /\ Len(call[p].log) >= 2
          /\ call[p].log[1] = Entry("Remote", "HasKey", "true", <<>>)
          /\ call[p].log[2] = Entry("Remote", "Delete", "ok", <<>>)
    /\ \E p \in {1, 2} : \E i \in DOMAIN call[p].log :
          call[p].log[i] = Entry("Local", "Delete", "ok", <<>>)

\* The methods that change what a backend owns.
Mutating == {"Create", "Import", "Delete"}

FrameOfCall ==
    \A p \in Procs :
        LET c == call[p]
            t == ExpectedTarget(c.ktype)
        IN  /\ c.op \in {"Has", "List", "Sign", "Export"} =>
                /\ \A i \in DOMAIN c.log : c.log[i].m \notin Mutating
                /\ keys = c.keys0
            /\ c.op \in {"New", "Import"} =>
                /\ \A b \in Backends : b # t => keys[b] = c.keys0[b]
                /\ \A b \in Backends : c.keys0[b] \subseteq keys[b]
                /\ \A i \in DOMAIN c.log : c.log[i].b = t
                /\ (c.op = "Import" /\ t # "nil") => keys[t] \subseteq c.keys0[t] \cup {c.addr}
                /\ (c.op = "New" /\ t # "nil") => Cardinality(keys[t] \ c.keys0[t]) <= 1
            /\ c.op = "Delete" =>
                \A b \in Backends :
                    /\ keys[b] \subseteq c.keys0[b]
                    /\ c.keys0[b] \ keys[b] \subseteq {c.addr}

\* C18: Has, List, Sign and Export call no Create, Import or Delete and leave
\* every key set as it was; New and Import change the key set of their one
\* target backend alone; Delete of an address removes that address only; no
\* step changes which backends are configured.
C18_Frame ==
    /\ []FrameOfCall
    /\ [][present' = present]_vars

\* Delete of address 1, which Remote held together with address 2: Remote keeps 2.
C18_Witness ==
    LET c == call[1]
    IN  /\ c.op = "Delete" /\ c.pc = "done" /\ c.result.kind = "ok"
        /\ c.addr = 1
        /\ c.keys0["Remote"] = {1, 2}
        /\ keys["Remote"] = {2}
        /\ \A b \in Backends : b # "Remote" => keys[b] = c.keys0[b]

\* C19: in a fixed backend state with no failing call, Has(a) is true exactly
\* for the addresses a that List returns: both are decided by whether some
\* present backend owns a.
C19_HasListAgree ==
    \A p \in Procs :
        LET c == call[p]
            owned == {a \in Addr : \E b \in Backends : present[b] /\ a \in keys[b]}
        IN  /\ (c.op = "List" /\ c.pc = "done" /\ NoFailure(c, "List")) =>
                /\ c.result.kind = "ok"
                /\ Range(c.result.val) = owned
            /\ (c.op = "Has" /\ c.pc = "done" /\ NoFailure(c, "HasKey")) =>
                /\ c.result.kind = "ok"
                /\ c.result.val = <<c.addr \in owned>>

\* Ledger alone owns address 1 (all backends present): List has returned it.
C19_Witness ==
    LET c == call[1]
    IN  /\ c.op = "List" /\ c.pc = "done" /\ c.result.kind = "ok"
        /\ \A b \in Backends : present[b]
        /\ keys["Ledger"] = {1} /\ keys["Remote"] = {} /\ keys["Local"] = {}
        /\ c.result.val = <<1>>

\* The place of backend b in the priority order.
Priority(b) == CHOOSE i \in DOMAIN PriorityOrder : PriorityOrder[i] = b

\* C20: Delete is not atomic: when it returns an error, the address is gone
\* from exactly the backends whose Delete succeeded and is owned as before by
\* the others; the Delete calls go down the priority order.
C20_DeleteNotAtomic ==
    \A p \in Procs :
        LET c == call[p]
            dels == CallsOf(c, "Delete")
            emptied == {c.log[i].b : i \in {j \in dels : c.log[j].r = "ok"}}
        IN  c.op = "Delete" =>
              /\ \A i, j \in dels : i < j => Priority(c.log[i].b) < Priority(c.log[j].b)
              /\ (c.pc = "done" /\ c.result.kind = "err") =>
                    \A b \in Backends :
                        /\ b \in emptied => c.addr \notin keys[b]
                        /\ b \notin emptied => keys[b] = c.keys0[b]
                        /\ keys[b] \ {c.addr} = c.keys0[b] \ {c.addr}

\* All three owned the address; Remote's Delete succeeded, Ledger's HasKey then
\* failed: Remote has lost it, Ledger and Local still own it.
C20_Witness ==
    LET c == call[1]
    IN  /\ c.op = "Delete" /\ c.pc = "done" /\ c.result.kind = "err"
        /\ OwnersAtStart(c) = Backends
        /\ Len(c.log) = 4
        /\ c.log[2] = Entry("Remote", "Delete", "ok", <<>>)
        /\ c.log[4] = Entry("Ledger", "HasKey", "err", <<>>)
        /\ c.addr \notin keys["Remote"]
        /\ c.addr \in keys["Ledger"] /\ c.addr \in keys["Local"]

====
